---- MODULE Spec2Model ----
(***************************************************************************)
(* Model of word-scope-rs (src/src/lib.rs): the word class                 *)
(* AvoidingWithPrefix (prefix, patterns, alphabet, is_just_prefix), its    *)
(* operations, and the odometer WordOfSizeIterator behind objects_of_size. *)
(*                                                                         *)
(* A Rust String / Vec<char> is a sequence of one-character strings; the   *)
(* symbols used are ASCII, so byte offsets and character offsets agree and *)
(* Rust's s[i..j] (0-based, half-open) is SubSeq(s, i+1, j).               *)
(* A panic (index out of bounds) is an explicit outcome of the operator    *)
(* that raises it, never an ordinary value.                                *)
(***************************************************************************)
EXTENDS Integers, Sequences, FiniteSets, TLC

\* ------------------------------------------------------------------ bounds
MaxPrefixLen == 3
MaxPatLen == 3
MaxSize == 5

\* The symbols words are built from (main.rs uses the alphabet ['a','b']).
Symbols == {"a", "b"}

VARIABLES self, op, res, size, it, emitted, panicked

vars == <<self, op, res, size, it, emitted, panicked>>

\* ------------------------------------------------------------ input sets
StringsUpTo(S, n) == UNION {[1..k -> S] : k \in 0..n}

Range(s) == {s[i] : i \in 1..Len(s)}

\* An alphabet is an ordered sequence of distinct symbols (possibly empty).
Alphabets ==
  {a \in StringsUpTo(Symbols, Cardinality(Symbols)) :
     \A i, j \in 1..Len(a) : i # j => a[i] # a[j]}

Patterns == StringsUpTo(Symbols, MaxPatLen)

\* The pattern lists a class is built with: no pattern, one, or two (in either
\* order, possibly equal, possibly empty strings).
PatternLists ==
  {<<>>} \cup {<<p>> : p \in Patterns} \cup {<<p, q>> : p \in Patterns, q \in Patterns}

Prefixes == StringsUpTo(Symbols, MaxPrefixLen)

\* ------------------------------------------------------- string helpers
Min(a, b) == IF a < b THEN a ELSE b

\* str::contains: pat occurs in word as a contiguous substring
StrContains(word, pat) ==
  \E j \in 0..(Len(word) - Len(pat)) : SubSeq(word, j + 1, j + Len(pat)) = pat

\* Option<T>: None is the empty sequence, Some(v) the one-element sequence
None == <<>>
Some(v) == <<v>>

\* --------------------------------------------------- AvoidingWithPrefix
new(prefix, patterns, alphabet, just_prefix) ==
  [prefix |-> prefix, patterns |-> patterns, alphabet |-> alphabet,
   is_just_prefix |-> just_prefix]

with_same_base(c, prefix, is_just_prefix) ==
  [prefix |-> prefix, alphabet |-> c.alphabet, patterns |-> c.patterns,
   is_just_prefix |-> is_just_prefix]

is_empty(c) ==
  \E k \in 1..Len(c.patterns) : StrContains(c.prefix, c.patterns[k])

is_atom(c) == c.is_just_prefix

minimum_size_of_object(c) == Len(c.prefix)

\* MaxPatternLen taking the shortest pattern instead of the longest
MaxPatternLen_min(c) ==
  IF Len(c.patterns) = 0 THEN 1
  ELSE CHOOSE m \in {Len(c.patterns[k]) : k \in 1..Len(c.patterns)} :
         \A k \in 1..Len(c.patterns) : Len(c.patterns[k]) >= m

\* patterns.iter().map(|s| s.len()).max().unwrap_or(1)
MaxPatternLen(c) ==
  IF Len(c.patterns) = 0 THEN 1
  ELSE CHOOSE m \in {Len(c.patterns[k]) : k \in 1..Len(c.patterns)} :
         \A k \in 1..Len(c.patterns) : Len(c.patterns[k]) <= m

\* if prefix.len() > m { prefix.len() - m + 0 } else { 0 }
InitialSafe(c) ==
  LET m == MaxPatternLen(c)
  IN  IF Len(c.prefix) > m THEN Len(c.prefix) - m + 0 ELSE 0

\* end == &patt[..min(end.len(), patt.len())] for some pattern, end = prefix[i..]
EndMatches(c, i) ==
  LET end == SubSeq(c.prefix, i + 1, Len(c.prefix))
  IN  \E k \in 1..Len(c.patterns) :
        end = SubSeq(c.patterns[k], 1, Min(Len(end), Len(c.patterns[k])))

\* ScanSafe with the boundary advanced to i instead of i + 1
RECURSIVE ScanSafe_stale(_, _, _)
ScanSafe_stale(c, i, safe) ==
  IF i >= Len(c.prefix) THEN safe
  ELSE IF EndMatches(c, i) THEN safe
  ELSE ScanSafe_stale(c, i + 1, i)

\* the loop "for i in safe..prefix.len()", entered at index i with boundary safe
RECURSIVE ScanSafe(_, _, _)
ScanSafe(c, i, safe) ==
  IF i >= Len(c.prefix) THEN safe
  ELSE IF EndMatches(c, i) THEN safe
  ELSE ScanSafe(c, i + 1, i + 1)

removable_prefix_length(c) == ScanSafe(c, InitialSafe(c), InitialSafe(c))

\* expand_one_letter that skips the first symbol of the alphabet
expand_one_letter_skip(c) ==
  <<with_same_base(c, c.prefix, TRUE)>> \o
  [k \in 1..(Len(c.alphabet) - 1) |->
     with_same_base(c, Append(c.prefix, c.alphabet[k + 1]), FALSE)]

expand_one_letter(c) ==
  <<with_same_base(c, c.prefix, TRUE)>> \o
  [k \in 1..Len(c.alphabet) |->
     with_same_base(c, Append(c.prefix, c.alphabet[k]), FALSE)]

\* remove_front_of_prefix without the early return on an atom
remove_front_of_prefix_noatom(c) ==
  LET safe == removable_prefix_length(c)
  IN  IF safe = 0 THEN None
      ELSE Some(<<with_same_base(c, SubSeq(c.prefix, 1, safe), TRUE),
                  with_same_base(c, SubSeq(c.prefix, safe + 1, Len(c.prefix)), FALSE)>>)

remove_front_of_prefix(c) ==
  IF c.is_just_prefix THEN None
  ELSE LET safe == removable_prefix_length(c)
       IN  IF safe = 0 THEN None
           ELSE Some(<<with_same_base(c, SubSeq(c.prefix, 1, safe), TRUE),
                       with_same_base(c, SubSeq(c.prefix, safe + 1, Len(c.prefix)), FALSE)>>)

contains(c, word) ==
  IF Len(word) < Len(c.prefix) THEN FALSE
  ELSE IF SubSeq(word, 1, Len(c.prefix)) # c.prefix THEN FALSE
  ELSE IF \E k \in 1..Len(c.patterns) : StrContains(word, c.patterns[k]) THEN FALSE
  ELSE TRUE

\* --------------------------------------------------- WordOfSizeIterator
WordOfSizeIterator_new(alphabet, n, prefix) ==
  LET done == n < Len(prefix)
  IN  [alphabet |-> alphabet,
       prefix   |-> prefix,
       current  |-> IF done THEN <<>> ELSE [k \in 1..(n - Len(prefix)) |-> 0],
       done     |-> done]

\* alphabet[i] for some digit i of current is out of bounds
IndexPanics(g) == \E k \in 1..Len(g.current) : g.current[k] >= Len(g.alphabet)

CurrentWord(g) ==
  g.prefix \o [k \in 1..Len(g.current) |-> g.alphabet[g.current[k] + 1]]

\* Carry that lets a digit reach alphabet.len()
RECURSIVE Carry_offbyone(_, _)
Carry_offbyone(g, i) ==
  IF i = 0 THEN g
  ELSE IF g.current[i] < Len(g.alphabet)
       THEN [g EXCEPT !.current[i] = @ + 1]
       ELSE Carry_offbyone([g EXCEPT !.current[i] = 0,
                                     !.done = IF i = 1 THEN TRUE ELSE @], i - 1)

\* Carry that never sets done when the leftmost digit overflows
RECURSIVE Carry_nodone(_, _)
Carry_nodone(g, i) ==
  IF i = 0 THEN g
  ELSE IF g.current[i] < Len(g.alphabet) - 1
       THEN [g EXCEPT !.current[i] = @ + 1]
       ELSE Carry_nodone([g EXCEPT !.current[i] = 0], i - 1)

\* the loop "for i in (0..current.len()).rev()", entered at 1-based digit i
RECURSIVE Carry(_, _)
Carry(g, i) ==
  IF i = 0 THEN g
  ELSE IF g.current[i] < Len(g.alphabet) - 1
       THEN [g EXCEPT !.current[i] = @ + 1]
       ELSE Carry([g EXCEPT !.current[i] = 0,
                            !.done = IF i = 1 THEN TRUE ELSE @], i - 1)

Increment(g) ==
  IF Len(g.current) = 0 THEN [g EXCEPT !.done = TRUE]
  ELSE Carry(g, Len(g.current))

\* Iterator::next: the generator afterwards, the item returned, or a panic
WordOfSizeIterator_next(g) ==
  IF g.done THEN [it |-> g, item |-> None, panic |-> FALSE]
  ELSE IF IndexPanics(g) THEN [it |-> g, item |-> None, panic |-> TRUE]
  ELSE [it |-> Increment(g), item |-> Some(CurrentWord(g)), panic |-> FALSE]

\* objects_of_size(n) consumed to the end: the words that pass the filter
RECURSIVE Drain(_, _, _)
Drain(c, g, acc) ==
  LET r == WordOfSizeIterator_next(g)
  IN  IF r.panic THEN [panic |-> TRUE, items |-> acc]
      ELSE IF r.item = None THEN [panic |-> FALSE, items |-> acc]
      ELSE Drain(c, r.it, IF contains(c, r.item[1]) THEN Append(acc, r.item[1]) ELSE acc)

objects_of_size(c, n) ==
  Drain(c, WordOfSizeIterator_new(c.alphabet, n, c.prefix), <<>>)

\* ------------------------------------------------ the class operations
\* to_bytes: Err(PyNotImplementedError) whatever the class
to_bytes(c) == "NotImplementedError"

NoIterator == WordOfSizeIterator_new(<<>>, 0, <<>>)

\* A class built by AvoidingWithPrefix::new from any arguments (no validation).
Init ==
  /\ \E p \in Prefixes, ps \in PatternLists, a \in Alphabets, j \in BOOLEAN :
       self = new(p, ps, a, j)
  /\ op = "new"
  /\ res = None
  /\ size = 0
  /\ it = NoIterator
  /\ emitted = <<>>
  /\ panicked = FALSE

\* One method call on the class. Every method takes &self and the class is
\* never mutated, so the outcome of a call does not depend on earlier calls:
\* a behaviour is the construction followed by one call.
Call(name, result) ==
  /\ op = "new"
  /\ op' = name
  /\ res' = result
  /\ UNCHANGED <<self, size, it, emitted, panicked>>

IsEmpty == Call("is_empty", is_empty(self))

IsAtom == Call("is_atom", is_atom(self))

MinimumSizeOfObject == Call("minimum_size_of_object", minimum_size_of_object(self))

RemovablePrefixLength == Call("removable_prefix_length", removable_prefix_length(self))

ExpandOneLetter == Call("expand_one_letter", expand_one_letter(self))

RemoveFrontOfPrefix == Call("remove_front_of_prefix", remove_front_of_prefix(self))

ToBytes == Call("to_bytes", to_bytes(self))

\* contains(word) on the prefix, the prefix cut by one symbol, and the prefix
\* extended by one symbol
Contains ==
  \E word \in {self.prefix, SubSeq(self.prefix, 1, Len(self.prefix) - 1)}
              \cup {Append(self.prefix, s) : s \in Symbols} :
    Call("contains", [word |-> word, result |-> contains(self, word)])

\* count_objects_of_size(n): objects_of_size(n) consumed to its end by count();
\* emitted records the words the inner iterator yielded, res the count returned
\* (no value is returned when the iteration panics).
CountObjectsOfSize ==
  \E n \in 0..MaxSize :
    LET r == objects_of_size(self, n)
    IN  /\ op = "new"
        /\ op' = "count_objects_of_size"
        /\ size' = n
        /\ emitted' = r.items
        /\ panicked' = r.panic
        /\ res' = IF r.panic THEN None ELSE Some(Len(r.items))
        /\ UNCHANGED <<self, it>>

\* The decomposition operations.
Next ==
  \/ RemovablePrefixLength
  \/ ExpandOneLetter
  \/ RemoveFrontOfPrefix

Spec == Init /\ [][Next]_vars

\* The queries and the brute-force enumeration.
NextQuery ==
  \/ IsEmpty
  \/ IsAtom
  \/ MinimumSizeOfObject
  \/ ToBytes
  \/ Contains
  \/ CountObjectsOfSize

SpecQuery == Init /\ [][NextQuery]_vars

\* ------------------------------------------------- the generator, stepwise
\* objects_of_size(size) of a class without patterns has just created the
\* generator WordOfSizeIterator::new(alphabet, size, prefix).
InitIter ==
  \E p \in Prefixes, a \in Alphabets, n \in 0..MaxSize :
    /\ self = new(p, <<>>, a, FALSE)
    /\ op = "objects_of_size"
    /\ res = None
    /\ size = n
    /\ it = WordOfSizeIterator_new(a, n, p)
    /\ emitted = <<>>
    /\ panicked = FALSE

\* One call of Iterator::next; res is the item returned. A panic ends the run.
ItNext ==
  LET r == WordOfSizeIterator_next(it)
  IN  /\ ~panicked
      /\ op' = "next"
      /\ it' = r.it
      /\ res' = r.item
      /\ emitted' = emitted \o r.item
      /\ panicked' = r.panic
      /\ UNCHANGED <<self, size>>

NextIter == ItNext

SpecIter == InitIter /\ [][NextIter]_vars

\* count() and every other consumer keep calling next until it returns None.
SpecIterFair == InitIter /\ [][NextIter]_vars /\ WF_vars(ItNext)

\* =================================================================== claims
\* ------------------------------------------------- languages of a class
\* The words over the alphabet of length at most n
Ext(alphabet, n) == StringsUpTo(Range(alphabet), n)

\* word contains none of the patterns
Avoids(word, patterns) == \A k \in 1..Len(patterns) : ~StrContains(word, patterns[k])

\* The words of length at most n a class denotes: an atom denotes its prefix if
\* the prefix avoids the patterns and nothing otherwise; a non-atom denotes
\* the extensions of its prefix over the alphabet that avoid the patterns.
Lang(c, n) ==
  IF c.is_just_prefix
  THEN IF Avoids(c.prefix, c.patterns) /\ Len(c.prefix) <= n THEN {c.prefix} ELSE {}
  ELSE {w \in {c.prefix \o t : t \in Ext(c.alphabet, n - Len(c.prefix))} :
          Avoids(w, c.patterns)}

\* C1: whenever remove_front_of_prefix returns [atom(front), nonAtom(back)],
\* the words front.w with front avoiding the patterns and w in the language of
\* the back child are exactly the words of the parent (words up to MaxSize).
C1_SplitPreservesLanguage ==
  (op = "remove_front_of_prefix" /\ res # None) =>
    LET front == res[1][1]
        back  == res[1][2]
    IN  {front.prefix \o w : w \in
           {v \in Lang(back, MaxSize - Len(front.prefix)) :
              Avoids(front.prefix, front.patterns)}}
        = Lang(self, MaxSize)

\* C2: on a non-atom, expand_one_letter returns |alphabet|+1 children, the
\* atom of the prefix and then the non-atom of prefix.s for each symbol s in
\* alphabet order, and the union of the children's languages is the parent's.
C2_ExpandOneLetter ==
  (op = "expand_one_letter" /\ ~self.is_just_prefix) =>
    /\ Len(res) = Len(self.alphabet) + 1
    /\ res[1] = [prefix |-> self.prefix, patterns |-> self.patterns,
                 alphabet |-> self.alphabet, is_just_prefix |-> TRUE]
    /\ \A k \in 1..Len(self.alphabet) :
         res[k + 1] = [prefix |-> Append(self.prefix, self.alphabet[k]),
                       patterns |-> self.patterns, alphabet |-> self.alphabet,
                       is_just_prefix |-> FALSE]
    /\ UNION {Lang(res[k], MaxSize) : k \in 1..Len(res)} = Lang(self, MaxSize)

\* A non-atom over two symbols whose language has words and one of whose
\* children is empty was expanded.
C2_Witness ==
  /\ op = "expand_one_letter"
  /\ ~self.is_just_prefix
  /\ Len(self.alphabet) = 2
  /\ Cardinality(Lang(self, MaxSize)) >= 3
  /\ \E k \in 2..Len(res) : Lang(res[k], MaxSize) = {}

\* pattern patt occurs in word at 0-based position j
OccursAt(word, patt, j) ==
  /\ j + Len(patt) <= Len(word)
  /\ SubSeq(word, j + 1, j + Len(patt)) = patt

\* C3: with safe = removable_prefix_length(), whatever string s is appended,
\* no occurrence of a pattern in prefix.s covers both a position before safe
\* and a position at or after |prefix|.
C3_FrontNeverInOccurrence ==
  (op = "removable_prefix_length") =>
    \A k \in 1..Len(self.patterns) :
      \A j \in 0..(res - 1) :
        (j + Len(self.patterns[k]) > Len(self.prefix)) =>
          \A s \in StringsUpTo(Symbols, MaxPatLen) :
            ~OccursAt(self.prefix \o s, self.patterns[k], j)

\* The boundary falls strictly inside the prefix, and some appended string
\* completes a pattern that starts in the pending part of the prefix.
C3_Witness ==
  /\ op = "removable_prefix_length"
  /\ 0 < res
  /\ res < Len(self.prefix)
  /\ \E s \in StringsUpTo(Symbols, MaxPatLen) :
       \E k \in 1..Len(self.patterns) :
         \E j \in res..(Len(self.prefix) - 1) :
           /\ OccursAt(self.prefix \o s, self.patterns[k], j)
           /\ j + Len(self.patterns[k]) > Len(self.prefix)

\* C8: remove_front_of_prefix returns nothing exactly when the class is an
\* atom or removable_prefix_length() = 0; otherwise it returns the atom of
\* prefix[0..safe] and the non-atom of prefix[safe..], whose prefixes
\* concatenate to the parent's, both with the parent's patterns and alphabet.
C8_RemoveFrontOfPrefix ==
  (op = "remove_front_of_prefix") =>
    LET safe == removable_prefix_length(self)
    IN  /\ (res = None) <=> (is_atom(self) \/ safe = 0)
        /\ (res # None) =>
             /\ Len(res) = 1
             /\ Len(res[1]) = 2
             /\ res[1][1] = [prefix |-> SubSeq(self.prefix, 1, safe),
                             patterns |-> self.patterns,
                             alphabet |-> self.alphabet, is_just_prefix |-> TRUE]
             /\ res[1][2] = [prefix |-> SubSeq(self.prefix, safe + 1, Len(self.prefix)),
                             patterns |-> self.patterns,
                             alphabet |-> self.alphabet, is_just_prefix |-> FALSE]
             /\ res[1][1].prefix \o res[1][2].prefix = self.prefix

\* A pair was returned that cuts the prefix strictly inside.
C8_Witness ==
  /\ op = "remove_front_of_prefix"
  /\ res # None
  /\ Len(res[1][1].prefix) >= 1
  /\ Len(res[1][2].prefix) >= 1
  /\ Len(self.patterns) = 2

\* C9: 0 <= removable_prefix_length() <= |prefix|, and the result is |prefix|
\* when there is no pattern.
C9_RemovableRange ==
  (op = "removable_prefix_length") =>
    /\ res \in 0..Len(self.prefix)
    /\ (Len(self.patterns) = 0) => res = Len(self.prefix)

\* The length was computed for a prefix of the greatest length without patterns.
C9_Witness ==
  /\ op = "removable_prefix_length"
  /\ Len(self.patterns) = 0
  /\ Len(self.prefix) = MaxPrefixLen
  /\ res = MaxPrefixLen

\* ----------------------------------------------------------- the generator
RECURSIVE Pow(_, _)
Pow(b, e) == IF e = 0 THEN 1 ELSE b * Pow(b, e - 1)

\* The number of words the generator is to emit for the target length size
ExpectedCount ==
  IF size < Len(it.prefix) THEN 0
  ELSE Pow(Len(it.alphabet), size - Len(it.prefix))

\* The digit vector of an emitted word: the 0-based alphabet position of each
\* symbol after the prefix
Digits(w) ==
  [k \in 1..(Len(w) - Len(it.prefix)) |->
     (CHOOSE d \in 1..Len(it.alphabet) : it.alphabet[d] = w[Len(it.prefix) + k]) - 1]

\* d comes before e in lexicographic order (leftmost digit most significant)
LexLess(d, e) ==
  /\ Len(d) = Len(e)
  /\ \E k \in 1..Len(d) : d[k] < e[k] /\ \A l \in 1..(k - 1) : d[l] = e[l]

\* C4: the generator's emissions are words of the target length that start
\* with the prefix, pairwise distinct and in ascending order of their digit
\* vectors, and once it has stopped there are |alphabet|^(size-|prefix|) of
\* them (one when size = |prefix|, none when size < |prefix|).
C4_GeneratorEmissions ==
  /\ \A i \in 1..Len(emitted) :
       /\ Len(emitted[i]) = size
       /\ SubSeq(emitted[i], 1, Len(it.prefix)) = it.prefix
  /\ \A i, j \in 1..Len(emitted) :
       i < j => /\ emitted[i] # emitted[j]
                /\ LexLess(Digits(emitted[i]), Digits(emitted[j]))
  /\ (it.done \/ panicked) => Len(emitted) = ExpectedCount
  /\ (it.done /\ size = Len(it.prefix)) => emitted = <<it.prefix>>

\* The generator over the alphabet [b, a] has emitted all 8 extensions of a
\* non-empty prefix by three symbols.
C4_Witness ==
  /\ it.done
  /\ it.alphabet = <<"b", "a">>
  /\ Len(it.prefix) >= 1
  /\ Len(it.current) = 3
  /\ Len(emitted) = 8

\* every digit is at its greatest value (so the carry runs out of the leftmost)
AllDigitsMax(g) == \A k \in 1..Len(g.current) : g.current[k] = Len(g.alphabet) - 1

\* C10: over a non-empty alphabet the generator is eventually exhausted; done
\* is set at creation exactly when size < |prefix|, and by a step exactly when
\* the carry runs out of the leftmost digit (every digit at its greatest value,
\* which includes the digit vector of length zero); once exhausted, a step
\* returns nothing and leaves the digit vector and done unchanged.
C10_Exhaustion ==
  /\ [](op = "objects_of_size" => (it.done <=> size < Len(it.prefix)))
  /\ [][(Len(it.alphabet) >= 1 /\ ~it.done) => (it'.done <=> AllDigitsMax(it))]_vars
  /\ [][it.done => (it' = it /\ emitted' = emitted /\ res' = None)]_vars
  /\ [](Len(it.alphabet) >= 1 => <>it.done)

\* next was called on an exhausted generator that had emitted four words.
C10_Witness ==
  /\ it.done
  /\ op = "next"
  /\ res = None
  /\ Len(it.current) = 2
  /\ Len(emitted) = 4

\* ------------------------------------------------------- the enumeration
\* The extensions of the prefix to length n over the alphabet that the class
\* contains
ExpectedObjects(c, n) ==
  IF n < Len(c.prefix) THEN {}
  ELSE {w \in {c.prefix \o t : t \in [1..(n - Len(c.prefix)) -> Range(c.alphabet)]} :
          contains(c, w) /\ Avoids(w, c.patterns)}

\* C5: objects_of_size(size) yields exactly the extensions of the prefix to
\* length size over the alphabet that contain no pattern, each once, and
\* count_objects_of_size(size) returns their number.
C5_ObjectsOfSize ==
  (op = "count_objects_of_size") =>
    /\ \A i \in 1..Len(emitted) : Len(emitted[i]) = size /\ contains(self, emitted[i])
    /\ Range(emitted) = ExpectedObjects(self, size)
    /\ Len(emitted) = Cardinality(ExpectedObjects(self, size))
    /\ res = Some(Cardinality(ExpectedObjects(self, size)))

\* C6: whenever count_objects_of_size(size) returns, on an atom it returns 0 for
\* size # minimum_size_of_object() and, for size = minimum_size_of_object(),
\* 1 if the prefix avoids the patterns and 0 otherwise; on a non-atom it
\* returns 0 for size < |prefix|.
C6_AtomExactSize ==
  (op = "count_objects_of_size" /\ ~panicked) =>
    /\ self.is_just_prefix =>
         res = Some(IF size = minimum_size_of_object(self)
                       /\ Avoids(self.prefix, self.patterns) THEN 1 ELSE 0)
    /\ (~self.is_just_prefix /\ size < Len(self.prefix)) => res = Some(0)

\* C7: no operation of the class fails (panics), whatever the class.
C7_NeverFails == ~panicked

====
